---- MODULE Spec2Model ----
(***************************************************************************)
(* The experimentation engine of "The Goal" decision-support apps:         *)
(* option_b_core.py, the Monte Carlo simulation (perturbation sampler,     *)
(* simulation runner, statistical aggregator), and option_a_core.py, the   *)
(* scenario comparator.  The two are separate apps: each specification     *)
(* below runs one of them and leaves the other one's variables alone.      *)
(*                                                                         *)
(* Numbers.  The program computes in floating point; the model computes    *)
(* exactly, in integers.  Hours, units and per-unit profits are integers   *)
(* (the sliders only produce integers).  Throughput, product quantities    *)
(* and targets are fixed-point numbers counted in 1/Scale of their unit,   *)
(* so that fractional oracle results and the int() truncation of           *)
(* probability_result are represented.  Rounding error of floating-point   *)
(* arithmetic is not modelled.                                             *)
(***************************************************************************)
EXTENDS Integers, Sequences, FiniteSets, TLC

VARIABLES
    base,             \* input.base_heat() .. input.base_profb(): the base scenario
    unc,              \* input.demand_unc(), input.capacity_unc(), input.price_unc()
    n_sims,           \* input.n_sims()
    target,           \* input.target(): None, or a number (in 1/Scale currency)
    run_sim,          \* input.run_sim(): how often the action button was clicked
    pc,               \* where run_simulation is: "idle", "loop" or "aborted"
    i,                \* run_simulation's loop variable: trials done so far
    results,          \* run_simulation's local list of result rows
    scenario,         \* the parameters of the latest oracle call of the run
    oracle_status,    \* outcome of the latest oracle call: "none", "ok", "raised"
    progress,         \* the ui.Progress bar: last value set, per-trial updates
    simulation_data,  \* reactive.Value: None, or the stored DataFrame (its rows)
    data_run,         \* the inputs the stored DataFrame was generated from
    scenario_inputs,  \* comparator: name1..profb3, the three scenarios' inputs
    set_order         \* comparator: the order its process iterates a set of strings in

vars == <<base, unc, n_sims, target, run_sim, pc, i, results, scenario,
          oracle_status, progress, simulation_data, data_run,
          scenario_inputs, set_order>>

\* The variables of the comparator app.
comparator_vars == <<scenario_inputs, set_order>>

\* The variables of the Monte Carlo app.
simulation_vars == <<base, unc, n_sims, target, run_sim, pc, i, results, scenario,
                     oracle_status, progress, simulation_data, data_run>>

\* Python's None, and a value that is not None: None is <<>>, v is <<v>>.
None == <<>>
Some(v) == <<v>>
The(o) == o[1]

----------------------------------------------------------------------------
(* Bounds and program constants *)

\* The slider offers 100..2000 trials; the runner is explored with 1..MaxTrials.
MaxTrials == 2

\* Clicks of the "Run Simulation" button explored in one session.
MaxClicks == 2

\* Fixed-point resolution of throughput, quantities and targets.
Scale == 2

\* "if i % 50 == 0": the cadence of the per-trial progress updates.
ProgressEvery == 50

\* The feasibility floors of the sampler.
DemandFloor == 0
CapacityFloor == 50
ProfitFloor == 10

Min(a, b) == IF a <= b THEN a ELSE b

\* Python's max(lo, x) for numbers.
Max(lo, x) == IF x > lo THEN x ELSE lo

\* Quotients are kept exact, as a numerator and a denominator.  A quotient
\* with denominator 0 is what a division by zero leaves: an exception for
\* Python numbers, inf or nan (and a warning) for numpy's.
Number(n) == [num |-> n, den |-> 1]
TrueDivide(n, d) == [num |-> n, den |-> d]
Times(q, k) == [num |-> q.num * k, den |-> q.den]
Minus(q, k) == [num |-> q.num - k * q.den, den |-> q.den]
DividedByZero(q) == q.den = 0

----------------------------------------------------------------------------
(* Inputs *)

\* The sliders' initial values.
DefaultBase ==
    [heat_treatment_capacity |-> 160, machining_capacity |-> 200,
     assembly_capacity |-> 180, demand_a |-> 50, demand_b |-> 80,
     profit_a |-> 90, profit_b |-> 60]

\* Another setting of the base-case sliders, near the low end of their ranges.
LowBase ==
    [heat_treatment_capacity |-> 90, machining_capacity |-> 100,
     assembly_capacity |-> 100, demand_a |-> 0, demand_b |-> 80,
     profit_a |-> 55, profit_b |-> 35]

\* Every base-case slider at its minimum: no demand at all.
MinBase ==
    [heat_treatment_capacity |-> 80, machining_capacity |-> 100,
     assembly_capacity |-> 100, demand_a |-> 0, demand_b |-> 0,
     profit_a |-> 50, profit_b |-> 30]

BaseScenarios == {DefaultBase, LowBase, MinBase}

ZeroUnc == [demand_unc |-> 0, capacity_unc |-> 0, price_unc |-> 0]

\* Settings of the three uncertainty sliders explored by the runner (the
\* sampler is explored with every combination, capacity included, below).
UncSettings ==
    {ZeroUnc,
     [demand_unc |-> 20, capacity_unc |-> 0, price_unc |-> 0],
     [demand_unc |-> 0, capacity_unc |-> 0, price_unc |-> 15]}

NSimsValues == 1..MaxTrials

----------------------------------------------------------------------------
(* The optimization oracle (the_goal_optimization.create_goal_optimization_model) *)

Stages == {"heat_treatment", "machining", "assembly"}

\* Hours of each stage one unit of either product takes, in the oracle's stand-in.
HoursPerUnit == 4

\* A pure function of the seven parameters with the response shape of the
\* oracle: both products pass through the three stages, product A is served first.
create_goal_optimization_model(s) ==
    LET cap == Min(s.heat_treatment_capacity,
                   Min(s.machining_capacity, s.assembly_capacity))
        a   == Min(Scale * s.demand_a, (Scale * cap) \div HoursPerUnit)
        b   == Min(Scale * s.demand_b,
                   (Scale * cap - HoursPerUnit * a) \div HoursPerUnit)
        bn  == IF s.heat_treatment_capacity = cap THEN "heat_treatment"
               ELSE IF s.machining_capacity = cap THEN "machining"
               ELSE "assembly"
    IN  [total_throughput |-> s.profit_a * a + s.profit_b * b,
         product_a |-> a,
         product_b |-> b,
         bottleneck |-> bn,
         heat_treatment_utilization |->
             (HoursPerUnit * (a + b) * 100) \div (Scale * s.heat_treatment_capacity)]

\* baseline(): the oracle on the current base-case inputs.
baseline == create_goal_optimization_model(base)

----------------------------------------------------------------------------
(* The perturbation sampler (inside run_simulation's loop) *)

\* A draw that scatters even when the standard deviation is 0.
NormalDrawsSpreadAtZero(D, mu, pct) == D \cup {mu}

\* Values np.random.normal(mu, mu * pct / 100) can return, out of the sample D of
\* the reals: with a standard deviation of 0 the draw is mu itself.
NormalDraws(D, mu, pct) == IF mu * pct = 0 THEN {mu} ELSE D \cup {mu}

\* The floor left out: the raw draw reaches the oracle.
FloorMissing(floor, draw) == draw

\* max(floor, draw)
Floor(floor, draw) == Max(floor, draw)

\* The scenarios one trial can pass to the oracle, for draws out of D.
PerturbedScenarios(D, b, u) ==
    { [heat_treatment_capacity |-> Floor(CapacityFloor, ht),
       machining_capacity |-> Floor(CapacityFloor, mc),
       assembly_capacity |-> Floor(CapacityFloor, as),
       demand_a |-> Floor(DemandFloor, da),
       demand_b |-> Floor(DemandFloor, db),
       profit_a |-> Floor(ProfitFloor, pa),
       profit_b |-> Floor(ProfitFloor, pb)] :
         da \in NormalDraws(D, b.demand_a, u.demand_unc),
         db \in NormalDraws(D, b.demand_b, u.demand_unc),
         ht \in NormalDraws(D, b.heat_treatment_capacity, u.capacity_unc),
         mc \in NormalDraws(D, b.machining_capacity, u.capacity_unc),
         as \in NormalDraws(D, b.assembly_capacity, u.capacity_unc),
         pa \in NormalDraws(D, b.profit_a, u.price_unc),
         pb \in NormalDraws(D, b.profit_b, u.price_unc) }

\* The draws explored inside the runner: far below every floor, or the mean.
TrialDraws == {-30}

----------------------------------------------------------------------------
(* The simulation runner: run_simulation *)

\* The row run_simulation appends for an oracle result.
ResultRow(r) ==
    [throughput |-> r.total_throughput,
     product_a |-> r.product_a,
     product_b |-> r.product_b,
     bottleneck |-> r.bottleneck,
     ht_utilization |-> r.heat_treatment_utilization]

\* The row put in front of the list instead of at its end.
CollectAtFront(rs, row) == <<row>> \o rs

\* results.append(row)
Collect(rs, row) == Append(rs, row)

NoProgress == [value |-> None, updates |-> 0]

\* p.set(i, ...) before every trial.
ProgressAtEveryTrial(p, k) == [value |-> Some(k), updates |-> p.updates + 1]

\* "if i % 50 == 0: p.set(i, ...)"
ProgressAt(p, k) ==
    IF k % ProgressEvery = 0
    THEN [value |-> Some(k), updates |-> p.updates + 1]
    ELSE p

\* The comparator is another app; while the Monte Carlo app is explored it is
\* not running.
ComparatorNotStarted ==
    /\ scenario_inputs = None
    /\ set_order = None

Init ==
    /\ base = DefaultBase
    /\ unc \in UncSettings
    /\ n_sims \in NSimsValues
    /\ target = None
    /\ run_sim = 0
    /\ pc = "idle"
    /\ i = 0
    /\ results = <<>>
    /\ scenario = None
    /\ oracle_status = "none"
    /\ progress = NoProgress
    /\ simulation_data = None
    /\ data_run = None
    /\ ComparatorNotStarted

\* The user moves base-case sliders (between runs: the effect runs to its end
\* before the session reads the next input message).
SetBase ==
    /\ pc # "loop"
    /\ \E b \in BaseScenarios \ {base} : base' = b
    /\ UNCHANGED comparator_vars
    /\ UNCHANGED <<unc, n_sims, target, run_sim, pc, i, results, scenario, oracle_status,
                   progress, simulation_data, data_run>>

SetUncertainty ==
    /\ pc # "loop"
    /\ \E u \in UncSettings \ {unc} : unc' = u
    /\ UNCHANGED comparator_vars
    /\ UNCHANGED <<base, n_sims, target, run_sim, pc, i, results, scenario, oracle_status,
                   progress, simulation_data, data_run>>

SetNSims ==
    /\ pc # "loop"
    /\ \E n \in NSimsValues \ {n_sims} : n_sims' = n
    /\ UNCHANGED comparator_vars
    /\ UNCHANGED <<base, unc, target, run_sim, pc, i, results, scenario, oracle_status,
                   progress, simulation_data, data_run>>

\* input.run_sim: the effect starts; "results = []" and the first p.set(message=...).
ClickRun ==
    /\ pc # "loop"
    /\ run_sim < MaxClicks
    /\ run_sim' = run_sim + 1
    /\ pc' = "loop"
    /\ i' = 0
    /\ results' = <<>>
    /\ scenario' = None
    /\ oracle_status' = "none"
    /\ progress' = NoProgress
    /\ UNCHANGED comparator_vars
    /\ UNCHANGED <<base, unc, n_sims, target, simulation_data, data_run>>

\* One pass of the loop body in which the oracle returns a result, the draws
\* taken out of the sample D.
TrialWith(D) ==
    /\ pc = "loop"
    /\ i < n_sims
    /\ \E s \in PerturbedScenarios(D, base, unc) :
          /\ scenario' = Some(s)
          /\ results' = Collect(results, ResultRow(create_goal_optimization_model(s)))
    /\ oracle_status' = "ok"
    /\ progress' = ProgressAt(progress, i)
    /\ i' = i + 1
    /\ UNCHANGED comparator_vars
    /\ UNCHANGED <<base, unc, n_sims, target, run_sim, pc, simulation_data, data_run>>

Trial == TrialWith(TrialDraws)

\* The oracle's exception handled by storing what was collected so far.
TrialOracleRaisesStoresPartial ==
    /\ pc = "loop"
    /\ i < n_sims
    /\ \E s \in PerturbedScenarios(TrialDraws, base, unc) : scenario' = Some(s)
    /\ oracle_status' = "raised"
    /\ progress' = ProgressAt(progress, i)
    /\ pc' = "aborted"
    /\ simulation_data' = Some(results)
    /\ results' = <<>>
    /\ UNCHANGED comparator_vars
    /\ UNCHANGED <<base, unc, n_sims, target, run_sim, i, data_run>>

\* One pass of the loop body in which the oracle call raises: nothing in
\* run_simulation catches it, the effect ends and its locals are gone.
TrialOracleRaises ==
    /\ pc = "loop"
    /\ i < n_sims
    /\ \E s \in PerturbedScenarios(TrialDraws, base, unc) : scenario' = Some(s)
    /\ oracle_status' = "raised"
    /\ progress' = ProgressAt(progress, i)
    /\ pc' = "aborted"
    /\ results' = <<>>
    /\ UNCHANGED comparator_vars
    /\ UNCHANGED <<base, unc, n_sims, target, run_sim, i, simulation_data, data_run>>

\* The new rows added to the stored DataFrame instead of replacing it.
StoreResultsAppends ==
    /\ pc = "loop"
    /\ i = n_sims
    /\ simulation_data' =
          Some(IF simulation_data = None THEN results
               ELSE The(simulation_data) \o results)
    /\ data_run' = Some([base |-> base, unc |-> unc, n_sims |-> n_sims,
                        click |-> run_sim])
    /\ pc' = "idle"
    /\ i' = 0
    /\ results' = <<>>
    /\ scenario' = None
    /\ oracle_status' = "none"
    /\ UNCHANGED comparator_vars
    /\ UNCHANGED <<base, unc, n_sims, target, run_sim, progress>>

\* After the loop: simulation_data.set(pd.DataFrame(results)).
StoreResults ==
    /\ pc = "loop"
    /\ i = n_sims
    /\ simulation_data' = Some(results)
    /\ data_run' = Some([base |-> base, unc |-> unc, n_sims |-> n_sims,
                        click |-> run_sim])
    /\ pc' = "idle"
    /\ i' = 0
    /\ results' = <<>>
    /\ scenario' = None
    /\ oracle_status' = "none"
    /\ UNCHANGED comparator_vars
    /\ UNCHANGED <<base, unc, n_sims, target, run_sim, progress>>

Next ==
    \/ SetBase
    \/ SetUncertainty
    \/ SetNSims
    \/ ClickRun
    \/ Trial
    \/ TrialOracleRaises
    \/ StoreResults

Spec == Init /\ [][Next]_vars

----------------------------------------------------------------------------
(* The sampler on its own: one trial of a one-trial run, with draws out of a *)
(* wider sample of the reals, from every setting of the sliders explored.    *)

\* Below every floor; between the demand and the profit floor; between the
\* profit and the capacity floor; above every floor.
SampleDraws == {-7, 9, 49, 300}

SamplerUncSettings ==
    [demand_unc : {0, 20}, capacity_unc : {0, 10}, price_unc : {0, 15}]

InitSampler ==
    /\ base \in BaseScenarios
    /\ unc \in SamplerUncSettings
    /\ n_sims = 1
    /\ target = None
    /\ run_sim = 1
    /\ pc = "loop"
    /\ i = 0
    /\ results = <<>>
    /\ scenario = None
    /\ oracle_status = "none"
    /\ progress = NoProgress
    /\ simulation_data = None
    /\ data_run = None
    /\ ComparatorNotStarted

SamplerTrial == TrialWith(SampleDraws)

NextSampler == SamplerTrial \/ StoreResults

SpecSampler == InitSampler /\ [][NextSampler]_vars

----------------------------------------------------------------------------
(* The runner at the slider's numbers of trials, where the cadence of the   *)
(* progress updates shows: the uncertainties are at 0, so that a trial has  *)
(* one outcome and a run is one path.                                       *)

\* The first two values of the n_sims slider (min 100, step 100).
ProgressTrials == {100, 200}

InitProgress ==
    /\ base = DefaultBase
    /\ unc = ZeroUnc
    /\ n_sims \in ProgressTrials
    /\ target = None
    /\ run_sim = 0
    /\ pc = "idle"
    /\ i = 0
    /\ results = <<>>
    /\ scenario = None
    /\ oracle_status = "none"
    /\ progress = NoProgress
    /\ simulation_data = None
    /\ data_run = None
    /\ ComparatorNotStarted

NextProgress == ClickRun \/ Trial \/ StoreResults

SpecProgress == InitProgress /\ [][NextProgress]_vars

----------------------------------------------------------------------------
(* The statistical aggregator: the outputs rendered from simulation_data *)

\* df['throughput']
Throughputs(df) == [k \in 1..Len(df) |-> df[k].throughput]

RECURSIVE SumTo(_, _)
SumTo(xs, k) == IF k = 0 THEN 0 ELSE xs[k] + SumTo(xs, k - 1)

\* The sum of a series; the mean is Sum(xs) / Len(xs).
Sum(xs) == SumTo(xs, Len(xs))

\* The k-th smallest value of a series (k from 1): what sorting puts at place k.
KthSmallest(xs, k) ==
    CHOOSE v \in {xs[j] : j \in 1..Len(xs)} :
        /\ Cardinality({j \in 1..Len(xs) : xs[j] < v}) < k
        /\ k <= Cardinality({j \in 1..Len(xs) : xs[j] <= v})

\* Quantile levels are given in 1/PerMille (0.05 is 50), and a quantile is
\* returned multiplied by PerMille, which keeps the interpolation exact.
PerMille == 1000

\* The interpolation applied to the series as it stands, without ordering it.
QuantileUnsorted(xs, pm) ==
    LET pos == pm * (Len(xs) - 1)
        lo  == pos \div PerMille
        rem == pos % PerMille
        xlo == xs[lo + 1]
        xhi == IF rem = 0 THEN xlo ELSE xs[lo + 2]
    IN  PerMille * xlo + rem * (xhi - xlo)

\* Series.quantile(pm / 1000), interpolation 'linear': position q * (n - 1) of
\* the ordered values, interpolating between its two neighbours.
Quantile(xs, pm) ==
    LET pos == pm * (Len(xs) - 1)
        lo  == pos \div PerMille
        rem == pos % PerMille
        xlo == KthSmallest(xs, lo + 1)
        xhi == IF rem = 0 THEN xlo ELSE KthSmallest(xs, lo + 2)
    IN  PerMille * xlo + rem * (xhi - xlo)

\* key_metrics(): n and sum give mean_throughput = sum / n; the percentiles are
\* multiplied by PerMille; base is the throughput the deltas are taken against.
\* (The standard deviation is shown too; no property here reads it.)
key_metrics ==
    IF simulation_data = None THEN None
    ELSE LET xs == Throughputs(The(simulation_data))
         IN  Some([n |-> Len(xs),
                   sum |-> Sum(xs),
                   percentile_5 |-> Quantile(xs, 50),
                   percentile_95 |-> Quantile(xs, 950),
                   base |-> baseline.total_throughput])

\* Python's int() on a fixed-point number: the fraction is cut off, towards 0.
IntTrunc(x) ==
    IF x >= 0 THEN (x \div Scale) * Scale ELSE -(((-x) \div Scale) * Scale)

\* The boundary value counted as falling short too.
IsBelowOrEqual(x, t) == x <= t

\* df['throughput'] < target
IsBelow(x, t) == x < t

\* df['throughput'] >= target
IsAtLeast(x, t) == x >= t

\* probability_result(): exceed and below count the rows on each side;
\* prob_exceed = exceed / n * 100 and prob_below = below / n * 100.
probability_result ==
    IF simulation_data = None THEN None
    ELSE LET xs == Throughputs(The(simulation_data))
             t  == IF target = None \/ target = Some(0)
                   THEN IntTrunc(baseline.total_throughput)
                   ELSE The(target)
         IN  Some([target |-> t,
                   n |-> Len(xs),
                   exceed |-> Cardinality({k \in 1..Len(xs) : IsAtLeast(xs[k], t)}),
                   below |-> Cardinality({k \in 1..Len(xs) : IsBelow(xs[k], t)})])

confidence_levels == <<50, 80, 90, 95, 99>>

\* lower = (100 - conf) / 2, as a quantile level in 1/PerMille.
LowerLevel(conf) == ((100 - conf) * PerMille) \div 200

\* The upper level taken to be the confidence level itself.
UpperLevelOmitsLower(conf) == conf * (PerMille \div 100)

\* upper = conf + lower, as a quantile level in 1/PerMille.
UpperLevel(conf) == conf * (PerMille \div 100) + LowerLevel(conf)

\* The rows ci_data holds after the loop has handled the first k levels.
RECURSIVE IntervalRows(_, _)
IntervalRows(xs, k) ==
    IF k = 0 THEN <<>>
    ELSE LET conf == confidence_levels[k]
             lower_bound == Quantile(xs, LowerLevel(conf))
             upper_bound == Quantile(xs, UpperLevel(conf))
         IN  Append(IntervalRows(xs, k - 1),
                    [conf |-> conf,
                     lower_bound |-> lower_bound,
                     upper_bound |-> upper_bound,
                     width |-> upper_bound - lower_bound])

\* confidence_intervals(): one table row per confidence level, in the order of
\* confidence_levels; the bounds are multiplied by PerMille.
confidence_intervals ==
    IF simulation_data = None THEN None
    ELSE Some(IntervalRows(Throughputs(The(simulation_data)),
                           Len(confidence_levels)))

\* The number of rows of a column that hold the value c.
Count(bs, c) == Cardinality({k \in 1..Len(bs) : bs[k] = c})

\* The distinct values of a column, each at the place of its first row: seen
\* holds those found so far, and the next one is the first row not among them.
RECURSIVE FirstSeen(_, _)
FirstSeen(bs, seen) ==
    LET IsNew(k) == \A j \in 1..Len(seen) : seen[j] # bs[k]
    IN  IF \A k \in 1..Len(bs) : ~IsNew(k) THEN seen
        ELSE LET first == CHOOSE k \in 1..Len(bs) :
                              IsNew(k) /\ \A j \in 1..(k - 1) : ~IsNew(j)
             IN  FirstSeen(bs, Append(seen, bs[first]))

\* A row put before the rows with a count at least as large.
InsertByCountAscending(sorted, row) ==
    SelectSeq(sorted, LAMBDA e : e.count < row.count) \o <<row>>
        \o SelectSeq(sorted, LAMBDA e : e.count >= row.count)

\* One step of the descending sort: a row goes behind the rows with a count
\* at least as large, so equal counts stay in the order they came in.
InsertByCount(sorted, row) ==
    SelectSeq(sorted, LAMBDA e : e.count >= row.count) \o <<row>>
        \o SelectSeq(sorted, LAMBDA e : e.count < row.count)

RECURSIVE SortedByCount(_, _)
SortedByCount(rows, k) ==
    IF k = 0 THEN <<>> ELSE InsertByCount(SortedByCount(rows, k - 1), rows[k])

\* Series.value_counts(): the categories with their counts, largest count
\* first; the categories are collected in the order of their first rows and
\* the sort leaves equal counts in that order.
value_counts(bs) ==
    LET keys == FirstSeen(bs, <<>>)
        rows == [k \in 1..Len(keys) |-> [index |-> keys[k], count |-> Count(bs, keys[k])]]
    IN  SortedByCount(rows, Len(keys))

\* df['bottleneck']
Bottlenecks(df) == [k \in 1..Len(df) |-> df[k].bottleneck]

\* (percentile / base['total_throughput'] - 1) * 100, the percentile being
\* held multiplied by PerMille.
PctVersusBaseline(percentile, base_throughput) ==
    Times(Minus(TrueDivide(percentile, PerMille * base_throughput), 1), 100)

\* insights() of the Monte Carlo app: the risk assessment and the bottleneck
\* analysis.  prob_above_baseline = above / n * 100.
insights ==
    IF simulation_data = None THEN None
    ELSE LET df == The(simulation_data)
             xs == Throughputs(df)
             percentile_5 == Quantile(xs, 50)
             percentile_95 == Quantile(xs, 950)
             bottleneck_counts == value_counts(Bottlenecks(df))
         IN  Some([n |-> Len(df),
                   sum |-> Sum(xs),
                   base |-> baseline.total_throughput,
                   percentile_5 |-> percentile_5,
                   percentile_95 |-> percentile_95,
                   above |-> Cardinality({k \in 1..Len(xs) :
                                            xs[k] > baseline.total_throughput}),
                   bottleneck_counts |-> bottleneck_counts,
                   most_common_bottleneck |-> bottleneck_counts[1].index,
                   bottleneck_pct |->
                       Times(TrueDivide(bottleneck_counts[1].count, Len(df)), 100),
                   worst_case_pct |->
                       PctVersusBaseline(percentile_5, baseline.total_throughput),
                   best_case_pct |->
                       PctVersusBaseline(percentile_95, baseline.total_throughput)])

\* How a render function of the Monte Carlo app ends: "if df is None: return"
\* an empty output, or the values computed from the DataFrame; none of them
\* raises or reports an error of its own.
RenderOutcome(o) == IF o = None THEN "empty" ELSE "values"

----------------------------------------------------------------------------
(* The aggregator on its own.  A run is taken as one step, from the click to *)
(* simulation_data.set, and the oracle's results in it are any rows of the   *)
(* response's shape; then the user changes the target and the base-case      *)
(* sliders, and the outputs are what the render functions compute from the   *)
(* inputs and simulation_data.                                               *)

\* Rows of the datasets enumerated in full.
MaxRows == 3

\* The smallest number of trials the slider offers.
NSimsMin == 100

\* Throughputs of the oracle's results: nothing, the LowBase baseline (787.5),
\* the same with its fraction cut off, and the DefaultBase baseline.
StatsThroughputs == {0, 1574, 1575, 7200}

StatsRow(t, b) ==
    [throughput |-> t, product_a |-> 0, product_b |-> 0, bottleneck |-> b,
     ht_utilization |-> 0]

StatsRows == {StatsRow(t, b) : t \in StatsThroughputs, b \in Stages}

\* Datasets of n rows: every dataset for n up to MaxRows, in every order; for
\* more rows, those that agree on every row but the first or the last.
StatsDatasets(n) ==
    IF n <= MaxRows
    THEN [1..n -> StatsRows]
    ELSE {[k \in 1..n |->
              IF k = j THEN StatsRow(hi, "machining") ELSE StatsRow(lo, "assembly")] :
            j \in {1, n}, lo \in StatsThroughputs, hi \in StatsThroughputs}

\* The sliders' initial uncertainty percentages.
DefaultUnc == [demand_unc |-> 20, capacity_unc |-> 10, price_unc |-> 15]

TargetInputs == {None, Some(0), Some(1575), Some(7200)}

InitStats ==
    /\ base = DefaultBase
    /\ unc = DefaultUnc
    /\ n_sims \in (1..MaxRows) \cup {NSimsMin}
    /\ target = None
    /\ run_sim = 0
    /\ pc = "idle"
    /\ i = 0
    /\ results = <<>>
    /\ scenario = None
    /\ oracle_status = "none"
    /\ progress = NoProgress
    /\ simulation_data = None
    /\ data_run = None
    /\ ComparatorNotStarted

\* run_simulation from the click to the end, the oracle returning any rows.
CompletedRun ==
    /\ pc = "idle"
    /\ run_sim = 0
    /\ run_sim' = 1
    /\ \E df \in StatsDatasets(n_sims) : simulation_data' = Some(df)
    /\ data_run' = Some([base |-> base, unc |-> unc, n_sims |-> n_sims,
                        click |-> 1])
    /\ UNCHANGED comparator_vars
    /\ UNCHANGED <<base, unc, n_sims, target, pc, i, results, scenario,
                   oracle_status, progress>>

\* The user types a target, or clears the field.
SetTarget ==
    /\ pc # "loop"
    /\ \E t \in TargetInputs \ {target} : target' = t
    /\ UNCHANGED comparator_vars
    /\ UNCHANGED <<base, unc, n_sims, run_sim, pc, i, results, scenario,
                   oracle_status, progress, simulation_data, data_run>>

NextStats == CompletedRun \/ SetTarget \/ SetBase

SpecStats == InitStats /\ [][NextStats]_vars

\* The same with the inputs left alone after the run: the outputs that read
\* neither the target nor the base-case sliders, over every Dataset.
NextDataset == CompletedRun

SpecDataset == InitStats /\ [][NextDataset]_vars

----------------------------------------------------------------------------
(* The scenario comparator (option_a_core.py): three scenarios are solved   *)
(* by the oracle and the cards, the throughput chart and the insights are   *)
(* rendered from the three results.                                         *)

\* The initial values of the three scenarios' inputs.
Scenario1Default ==
    [name |-> "Baseline",
     heat_treatment_capacity |-> 160, machining_capacity |-> 200,
     assembly_capacity |-> 180, demand_a |-> 50, demand_b |-> 80,
     profit_a |-> 90, profit_b |-> 60]

Scenario2Default ==
    [name |-> "Elevate Bottleneck",
     heat_treatment_capacity |-> 200, machining_capacity |-> 200,
     assembly_capacity |-> 180, demand_a |-> 50, demand_b |-> 80,
     profit_a |-> 90, profit_b |-> 60]

Scenario3Default ==
    [name |-> "Premium Product A",
     heat_treatment_capacity |-> 160, machining_capacity |-> 200,
     assembly_capacity |-> 180, demand_a |-> 50, demand_b |-> 80,
     profit_a |-> 140, profit_b |-> 60]

DefaultScenarios == <<Scenario1Default, Scenario2Default, Scenario3Default>>

\* Settings of one scenario's seven sliders: the three initial ones, every
\* slider at its minimum (no demand, no throughput), and one with machining
\* as the scarcest stage.
SliderSettings ==
    {[heat_treatment_capacity |-> 160, machining_capacity |-> 200,
      assembly_capacity |-> 180, demand_a |-> 50, demand_b |-> 80,
      profit_a |-> 90, profit_b |-> 60],
     [heat_treatment_capacity |-> 200, machining_capacity |-> 200,
      assembly_capacity |-> 180, demand_a |-> 50, demand_b |-> 80,
      profit_a |-> 90, profit_b |-> 60],
     [heat_treatment_capacity |-> 160, machining_capacity |-> 200,
      assembly_capacity |-> 180, demand_a |-> 50, demand_b |-> 80,
      profit_a |-> 140, profit_b |-> 60],
     [heat_treatment_capacity |-> 80, machining_capacity |-> 100,
      assembly_capacity |-> 100, demand_a |-> 0, demand_b |-> 0,
      profit_a |-> 50, profit_b |-> 30],
     [heat_treatment_capacity |-> 240, machining_capacity |-> 100,
      assembly_capacity |-> 180, demand_a |-> 50, demand_b |-> 80,
      profit_a |-> 90, profit_b |-> 60]}

\* The orders in which a set of the stage names can be iterated: Python's
\* string hashing is seeded per process, and the order is fixed by the seed.
SetOrders ==
    {<<"heat_treatment", "machining", "assembly">>,
     <<"heat_treatment", "assembly", "machining">>,
     <<"machining", "heat_treatment", "assembly">>,
     <<"machining", "assembly", "heat_treatment">>,
     <<"assembly", "heat_treatment", "machining">>,
     <<"assembly", "machining", "heat_treatment">>}

\* solve_scenarios(): the oracle's result for each scenario, with its name.
solve_scenarios ==
    [k \in 1..3 |->
        LET s == The(scenario_inputs)[k]
            r == create_goal_optimization_model(s)
        IN  [name |-> s.name,
             total_throughput |-> r.total_throughput,
             product_a |-> r.product_a,
             product_b |-> r.product_b,
             bottleneck |-> r.bottleneck,
             heat_treatment_utilization |-> r.heat_treatment_utilization]]

\* Python's max of three numbers.
Max3(a, b, c) == Max(Max(a, b), c)

\* create_scenario_card_html: what the card shows.
create_scenario_card_html(result, is_best) ==
    [name |-> result.name,
     badge |-> IF is_best THEN "BEST" ELSE "",
     border_color |-> IF is_best THEN "#16a34a" ELSE "#94a3b8",
     total_throughput |-> result.total_throughput,
     product_a |-> result.product_a,
     product_b |-> result.product_b,
     bottleneck |-> result.bottleneck,
     heat_treatment_utilization |-> result.heat_treatment_utilization]

scenario1_card ==
    LET res == solve_scenarios
        best_throughput == Max3(res[1].total_throughput, res[2].total_throughput,
                                res[3].total_throughput)
        is_best == res[1].total_throughput = best_throughput
    IN  create_scenario_card_html(res[1], is_best)

scenario2_card ==
    LET res == solve_scenarios
        best_throughput == Max3(res[1].total_throughput, res[2].total_throughput,
                                res[3].total_throughput)
        is_best == res[2].total_throughput = best_throughput
    IN  create_scenario_card_html(res[2], is_best)

scenario3_card ==
    LET res == solve_scenarios
        best_throughput == Max3(res[1].total_throughput, res[2].total_throughput,
                                res[3].total_throughput)
        is_best == res[3].total_throughput = best_throughput
    IN  create_scenario_card_html(res[3], is_best)

\* throughput_chart(): the bars' names, heights and colours.
throughput_chart ==
    LET res == solve_scenarios
        throughputs == <<res[1].total_throughput, res[2].total_throughput,
                         res[3].total_throughput>>
        max_throughput == Max3(throughputs[1], throughputs[2], throughputs[3])
    IN  [names |-> <<res[1].name, res[2].name, res[3].name>>,
         throughputs |-> throughputs,
         colors |-> [k \in 1..3 |->
                       IF throughputs[k] = max_throughput
                       THEN "#16a34a" ELSE "#3b82f6"]]

\* The 0-based place of the last element equal to v.
ListIndexOfLast(xs, v) ==
    (CHOOSE k \in 1..Len(xs) : xs[k] = v /\ \A j \in (k + 1)..Len(xs) : xs[j] # v) - 1

\* list.index(v): the 0-based place of the first element equal to v.
ListIndex(xs, v) ==
    (CHOOSE k \in 1..Len(xs) : xs[k] = v /\ \A j \in 1..(k - 1) : xs[j] # v) - 1

\* The percentage computed without looking at the baseline first.
ImprovementPctUnguarded(improvement, baseline_throughput) ==
    Times(TrueDivide(improvement, baseline_throughput), 100)

\* (improvement / baseline_throughput) * 100 if baseline_throughput > 0 else 0
ImprovementPct(improvement, baseline_throughput) ==
    IF baseline_throughput > 0
    THEN Times(TrueDivide(improvement, baseline_throughput), 100)
    ELSE Number(0)

\* list(set(xs)): each value of xs once, in the set's iteration order.
ListOfSet(xs) ==
    SelectSeq(The(set_order), LAMBDA b : \E k \in 1..Len(xs) : xs[k] = b)

\* insights() of the comparator: the best-scenario line, the improvement line
\* (None when it is not shown) and the bottleneck line.
comparator_insights ==
    LET res == solve_scenarios
        throughputs == <<res[1].total_throughput, res[2].total_throughput,
                         res[3].total_throughput>>
        best_idx == ListIndex(throughputs,
                              Max3(throughputs[1], throughputs[2], throughputs[3]))
        best_result == res[best_idx + 1]
        best_name == best_result.name
        baseline_throughput == res[1].total_throughput
        best_throughput == best_result.total_throughput
        improvement == best_throughput - baseline_throughput
        improvement_pct == ImprovementPct(improvement, baseline_throughput)
        bottlenecks == <<res[1].bottleneck, res[2].bottleneck, res[3].bottleneck>>
        unique_bottlenecks == ListOfSet(bottlenecks)
    IN  [best_idx |-> best_idx,
         best_name |-> best_name,
         best_throughput |-> best_throughput,
         improvement |-> improvement,
         improvement_pct |-> improvement_pct,
         improvement_line |->
             IF best_idx # 0
             THEN Some([best_name |-> best_name,
                        improvement |-> improvement,
                        improvement_pct |-> improvement_pct])
             ELSE None,
         bottleneck_line |->
             IF Len(unique_bottlenecks) > 1
             THEN [title |-> "Bottleneck Shift", bottlenecks |-> unique_bottlenecks]
             ELSE [title |-> "Consistent Bottleneck",
                   bottlenecks |-> <<unique_bottlenecks[1]>>]]

InitCompare ==
    /\ base = DefaultBase
    /\ unc = DefaultUnc
    /\ n_sims = NSimsMin
    /\ target = None
    /\ run_sim = 0
    /\ pc = "idle"
    /\ i = 0
    /\ results = <<>>
    /\ scenario = None
    /\ oracle_status = "none"
    /\ progress = NoProgress
    /\ simulation_data = None
    /\ data_run = None
    /\ scenario_inputs = Some(DefaultScenarios)
    /\ set_order \in {Some(o) : o \in SetOrders}

\* The user moves sliders of one scenario.
SetScenario ==
    /\ \E k \in 1..3 : \E s \in SliderSettings :
          LET named == [name |-> The(scenario_inputs)[k].name,
                        heat_treatment_capacity |-> s.heat_treatment_capacity,
                        machining_capacity |-> s.machining_capacity,
                        assembly_capacity |-> s.assembly_capacity,
                        demand_a |-> s.demand_a,
                        demand_b |-> s.demand_b,
                        profit_a |-> s.profit_a,
                        profit_b |-> s.profit_b]
          IN  /\ named # The(scenario_inputs)[k]
              /\ scenario_inputs' =
                     Some([The(scenario_inputs) EXCEPT ![k] = named])
    /\ UNCHANGED set_order
    /\ UNCHANGED simulation_vars

NextCompare == SetScenario

SpecCompare == InitCompare /\ [][NextCompare]_vars

----------------------------------------------------------------------------
(* Properties *)

\* C1: every scenario a trial passes to the oracle has demand_a, demand_b >= 0,
\* the three capacities >= 50 and profit_a, profit_b >= 10, whatever the draws
\* were and whatever the base scenario and the uncertainty percentages are.
C1_FloorInvariant ==
    scenario # None =>
        LET s == The(scenario)
        IN  /\ s.demand_a >= 0
            /\ s.demand_b >= 0
            /\ s.heat_treatment_capacity >= 50
            /\ s.machining_capacity >= 50
            /\ s.assembly_capacity >= 50
            /\ s.profit_a >= 10
            /\ s.profit_b >= 10

\* A trial whose draws fell below the demand, capacity and profit floors.
C1_Witness ==
    /\ scenario # None
    /\ base.demand_a > 0
    /\ The(scenario).demand_a = 0
    /\ The(scenario).heat_treatment_capacity = 50
    /\ The(scenario).profit_b = 10
    /\ The(scenario).machining_capacity > 50

\* C2: with the three uncertainty percentages at 0, every scenario passed to
\* the oracle is the base scenario itself, and every row collected and every
\* row of the stored Dataset has the throughput of the baseline (the oracle on
\* the base scenario of the run).
C2_ZeroUncertaintyDeterminism ==
    /\ (pc = "loop" /\ unc = ZeroUnc) =>
          /\ scenario # None => The(scenario) = base
          /\ \A k \in 1..Len(results) :
                results[k].throughput = baseline.total_throughput
    /\ (simulation_data # None /\ data_run # None /\ The(data_run).unc = ZeroUnc) =>
          \A k \in 1..Len(The(simulation_data)) :
              The(simulation_data)[k].throughput =
                  create_goal_optimization_model(The(data_run).base).total_throughput

\* A completed two-trial run at zero uncertainty from the low base scenario.
C2_Witness ==
    /\ simulation_data # None
    /\ data_run # None
    /\ The(data_run).unc = ZeroUnc
    /\ The(data_run).base = LowBase
    /\ Len(The(simulation_data)) = 2

\* C3: each trial appends the row of its oracle evaluation at the end of the
\* rows collected before it, and a run that reaches its end stores exactly
\* n_sims rows, the rows of its trials in trial order.
C3_ExactlyNTrialsInOrder ==
    [][ /\ (pc = "loop" /\ pc' = "loop" /\ i' = i + 1) =>
              /\ scenario' # None
              /\ results' = Append(results,
                     ResultRow(create_goal_optimization_model(The(scenario'))))
              /\ Len(results') = i'
        /\ (pc = "loop" /\ pc' = "idle") =>
              /\ Len(results) = n_sims
              /\ simulation_data' = Some(results) ]_vars

\* A stored Dataset of two different rows.
C3_Witness ==
    /\ simulation_data # None
    /\ data_run # None
    /\ The(data_run).n_sims = 2
    /\ Len(The(simulation_data)) = 2
    /\ The(simulation_data)[1] # The(simulation_data)[2]

\* C4: simulation_data changes only in the step that ends a run whose loop has
\* done all n_sims trials, and then to all the rows of that run: a run in
\* progress, or one aborted at trial k < n_sims, shows none of its rows.
C4_NoPartialDataset ==
    [][ simulation_data' # simulation_data =>
            /\ pc = "loop"
            /\ i = n_sims
            /\ Len(results) = n_sims
            /\ simulation_data' = Some(results) ]_vars

\* A run aborted after its first trial, with no Dataset visible.
C4_Witness ==
    /\ pc = "aborted"
    /\ i >= 1
    /\ simulation_data = None

\* C5: when the oracle fails on a trial, only that trial ends: the run is
\* still running afterwards (and goes on to its remaining trials).
C5_RunContinuesAfterOracleFailure ==
    [][ (pc = "loop" /\ oracle_status' = "raised") => pc' = "loop" ]_vars

\* C6: the visible Dataset is the one of the most recently completed run: it
\* has that run's number of rows, each of them a row that run's inputs can
\* produce, and after a completed run it is that run's Dataset.
C6_DatasetOfLastCompletedRun ==
    /\ (simulation_data = None) <=> (data_run = None)
    /\ simulation_data # None =>
          LET df == The(simulation_data)
              r  == The(data_run)
          IN  /\ Len(df) = r.n_sims
              /\ \A k \in 1..Len(df) :
                    df[k] \in {ResultRow(create_goal_optimization_model(s)) :
                                 s \in PerturbedScenarios(TrialDraws, r.base, r.unc)}
              /\ r.click <= run_sim
    /\ (pc = "idle" /\ run_sim > 0) =>
          (data_run # None /\ The(data_run).click = run_sim)

\* The second run of a session has completed and its Dataset is the visible one.
C6_Witness ==
    /\ pc = "idle"
    /\ simulation_data # None
    /\ data_run # None
    /\ The(data_run).click = 2
    /\ The(data_run).n_sims = 1

\* C7: the baseline key_metrics compares a Dataset against is the oracle's
\* result for the base scenario the Dataset was generated from.
C7_BaselineOfTheDatasetsScenario ==
    (key_metrics # None /\ data_run # None) =>
        The(key_metrics).base =
            create_goal_optimization_model(The(data_run).base).total_throughput

\* C8: for every non-empty Dataset and every target, each row is counted in
\* exactly one of "achieving or exceeding" and "falling short", so the two
\* percentages, exceed / n * 100 and below / n * 100, add up to 100.
C8_ProbabilityComplement ==
    probability_result # None =>
        LET r  == The(probability_result)
            xs == Throughputs(The(simulation_data))
        IN  /\ \A k \in 1..Len(xs) :
                  IsAtLeast(xs[k], r.target) # IsBelow(xs[k], r.target)
            /\ 100 * r.exceed + 100 * r.below = 100 * r.n

\* A Dataset with a row at the target, a row below it and a row above it.
C8_Witness ==
    /\ probability_result # None
    /\ LET r  == The(probability_result)
           xs == Throughputs(The(simulation_data))
       IN  /\ Len(xs) = 3
           /\ \E k \in 1..3 : xs[k] = r.target
           /\ \E k \in 1..3 : xs[k] < r.target
           /\ \E k \in 1..3 : xs[k] > r.target

\* C9: with no target set, the target is the baseline's throughput: the rows
\* counted as falling short are those strictly below the baseline's throughput,
\* the rows counted as meeting the target those at or above it.
C9_DefaultTargetIsBaseline ==
    (probability_result # None /\ target = None) =>
        LET r  == The(probability_result)
            xs == Throughputs(The(simulation_data))
            b  == baseline.total_throughput
        IN  /\ r.target = b
            /\ r.below = Cardinality({k \in 1..Len(xs) : xs[k] < b})
            /\ r.exceed = Cardinality({k \in 1..Len(xs) : xs[k] >= b})

\* C10, as stated: 5th percentile <= mean <= 95th percentile (the mean is
\* sum / n, the percentiles are held multiplied by PerMille).
C10_MeanBetweenPercentiles ==
    key_metrics # None =>
        LET m == The(key_metrics)
        IN  /\ m.n * m.percentile_5 <= PerMille * m.sum
            /\ PerMille * m.sum <= m.n * m.percentile_95

\* C10, amended: the 5th percentile is at most the 95th, and the mean and both
\* percentiles lie between the smallest and the largest throughput.
C10_PercentilesOrderedWithinRange ==
    key_metrics # None =>
        LET m  == The(key_metrics)
            xs == Throughputs(The(simulation_data))
            vs == {xs[k] : k \in 1..Len(xs)}
            lo == CHOOSE v \in vs : \A w \in vs : v <= w
            hi == CHOOSE v \in vs : \A w \in vs : w <= v
        IN  /\ m.percentile_5 <= m.percentile_95
            /\ PerMille * lo <= m.percentile_5
            /\ m.percentile_95 <= PerMille * hi
            /\ m.n * lo <= m.sum
            /\ m.sum <= m.n * hi

\* A Dataset of NSimsMin rows whose mean lies above its 95th percentile.
C10_Witness ==
    /\ key_metrics # None
    /\ The(key_metrics).n = NSimsMin
    /\ PerMille * The(key_metrics).sum >
           The(key_metrics).n * The(key_metrics).percentile_95

\* C11: for each confidence level c of 50, 80, 90, 95, 99 the interval bounds
\* are the (100-c)/2-th and the (100-(100-c)/2)-th percentile of throughput; of
\* two levels the higher one's interval contains the lower one's; and when all
\* rows have the same throughput every interval is that single value.
C11_IntervalsArePercentilesAndNested ==
    confidence_intervals # None =>
        LET ci == The(confidence_intervals)
            xs == Throughputs(The(simulation_data))
        IN  /\ {ci[k].conf : k \in 1..Len(ci)} = {50, 80, 90, 95, 99}
            /\ \A k \in 1..Len(ci) :
                 LET tail == ((100 - ci[k].conf) * 10) \div 2
                 IN  /\ ci[k].lower_bound = Quantile(xs, tail)
                     /\ ci[k].upper_bound = Quantile(xs, PerMille - tail)
            /\ \A j, k \in 1..Len(ci) :
                 ci[j].conf < ci[k].conf =>
                     /\ ci[k].lower_bound <= ci[j].lower_bound
                     /\ ci[j].lower_bound <= ci[j].upper_bound
                     /\ ci[j].upper_bound <= ci[k].upper_bound
            /\ (\A k \in 1..Len(xs) : xs[k] = xs[1]) =>
                 \A k \in 1..Len(ci) :
                     /\ ci[k].lower_bound = PerMille * xs[1]
                     /\ ci[k].upper_bound = PerMille * xs[1]

\* A Dataset of NSimsMin rows whose 99% interval reaches strictly above its
\* 50% interval.
C11_Witness ==
    /\ confidence_intervals # None
    /\ Len(The(simulation_data)) = NSimsMin
    /\ The(confidence_intervals)[5].conf = 99
    /\ The(confidence_intervals)[5].upper_bound >
           The(confidence_intervals)[1].upper_bound

\* C12: every scenario whose total_throughput is the maximum of the three is
\* reported as best by each output that names the best scenario: its card
\* carries the BEST badge, its bar has the best colour, and the insights name it.
C12_AllTiedScenariosReportedBest ==
    scenario_inputs # None =>
        LET res == solve_scenarios
            cards == <<scenario1_card, scenario2_card, scenario3_card>>
            best == Max3(res[1].total_throughput, res[2].total_throughput,
                         res[3].total_throughput)
        IN  \A k \in 1..3 :
                res[k].total_throughput = best =>
                    /\ cards[k].badge = "BEST"
                    /\ throughput_chart.colors[k] = "#16a34a"
                    /\ comparator_insights.best_name = res[k].name

\* C13: improvement = best_throughput - scenario 1's throughput; the percentage
\* is improvement / baseline_throughput * 100 when the baseline throughput is
\* positive and 0 otherwise, and no division by zero takes place.
C13_ImprovementAndGuardedPercentage ==
    scenario_inputs # None =>
        LET res == solve_scenarios
            ins == comparator_insights
            baseline_throughput == res[1].total_throughput
            best == Max3(res[1].total_throughput, res[2].total_throughput,
                         res[3].total_throughput)
        IN  /\ ins.improvement = best - baseline_throughput
            /\ ~DividedByZero(ins.improvement_pct)
            /\ baseline_throughput > 0 =>
                   ins.improvement_pct =
                       [num |-> ins.improvement * 100, den |-> baseline_throughput]
            /\ baseline_throughput <= 0 => ins.improvement_pct = Number(0)
            /\ ins.improvement_line # None =>
                   /\ The(ins.improvement_line).improvement = ins.improvement
                   /\ The(ins.improvement_line).improvement_pct = ins.improvement_pct

\* Scenario 1 changed to produce no throughput while another scenario does:
\* the improvement line is shown, with the guarded percentage.
C13_Witness ==
    /\ scenario_inputs # None
    /\ solve_scenarios[1].total_throughput = 0
    /\ comparator_insights.improvement > 0
    /\ comparator_insights.improvement_line # None
    /\ The(comparator_insights.improvement_line).improvement_pct = Number(0)

\* C14: the bottleneck line is "Consistent Bottleneck" exactly when the three
\* scenarios have the same bottleneck; otherwise it is "Bottleneck Shift" and
\* lists each distinct bottleneck once, in the order scenarios 1, 2, 3 first
\* show them.
C14_BottleneckLineInFirstSeenOrder ==
    scenario_inputs # None =>
        LET res == solve_scenarios
            line == comparator_insights.bottleneck_line
            b1 == res[1].bottleneck
            b2 == res[2].bottleneck
            b3 == res[3].bottleneck
            first_seen == <<b1>> \o (IF b2 # b1 THEN <<b2>> ELSE <<>>)
                               \o (IF b3 \notin {b1, b2} THEN <<b3>> ELSE <<>>)
        IN  /\ line.title = "Consistent Bottleneck" <=> (b1 = b2 /\ b2 = b3)
            /\ line.title # "Consistent Bottleneck" =>
                   /\ line.title = "Bottleneck Shift"
                   /\ line.bottlenecks = first_seen

\* C15: in the insights of the Monte Carlo app the percentages of the 5th and
\* the 95th percentile against the baseline are computed without a division
\* by a baseline throughput of zero.
C15_NoDivisionByZeroBaseline ==
    insights # None =>
        /\ ~DividedByZero(The(insights).worst_case_pct)
        /\ ~DividedByZero(The(insights).best_case_pct)

\* C16: while there are zero trials (no Dataset has been stored, or an empty
\* one), every aggregate output ends in an error; none is empty or a value.
C16_ZeroTrialsFailExplicitly ==
    (simulation_data = None \/ Len(The(simulation_data)) = 0) =>
        /\ RenderOutcome(key_metrics) = "error"
        /\ RenderOutcome(probability_result) = "error"
        /\ RenderOutcome(confidence_intervals) = "error"
        /\ RenderOutcome(insights) = "error"

\* C17: every aggregate of the stored Dataset (sum and count for the mean, the
\* 5th and 95th percentile, the confidence intervals, the counts on each side
\* of the target, the most common bottleneck and its count) is the same for
\* the Dataset's rows in any other order.
C17_AggregatesIgnoreRowOrder ==
    simulation_data # None =>
        LET df == The(simulation_data)
            n  == Len(df)
            t  == The(probability_result).target
            Aggregates(d) ==
                LET xs == Throughputs(d)
                    counts == value_counts(Bottlenecks(d))
                IN  [n |-> Len(d),
                     sum |-> Sum(xs),
                     percentile_5 |-> Quantile(xs, 50),
                     percentile_95 |-> Quantile(xs, 950),
                     intervals |-> IntervalRows(xs, Len(confidence_levels)),
                     exceed |-> Cardinality({k \in 1..Len(xs) : IsAtLeast(xs[k], t)}),
                     below |-> Cardinality({k \in 1..Len(xs) : IsBelow(xs[k], t)}),
                     most_common_bottleneck |-> counts[1].index,
                     most_common_count |-> counts[1].count]
            orders == IF n <= MaxRows THEN Permutations(1..n)
                      ELSE {[k \in 1..n |-> n + 1 - k]}
        IN  \A p \in orders :
                Aggregates([k \in 1..n |-> df[p[k]]]) = Aggregates(df)

\* C18: the dominant bottleneck is a category of the Dataset whose count is at
\* least every category's count; its share is count / n * 100; the counts of
\* the categories add up to n; the share is above 0 and at most 100.
C18_DominantBottleneckAndShare ==
    insights # None =>
        LET ins == The(insights)
            bs == Bottlenecks(The(simulation_data))
            n == Len(bs)
            counts == ins.bottleneck_counts
            top == Cardinality({k \in 1..n : bs[k] = ins.most_common_bottleneck})
        IN  /\ n > 0
            /\ top > 0
            /\ \A c \in Stages : Cardinality({k \in 1..n : bs[k] = c}) <= top
            /\ ins.bottleneck_pct = [num |-> top * 100, den |-> n]
            /\ \A r \in DOMAIN counts :
                   counts[r].count =
                       Cardinality({k \in 1..n : bs[k] = counts[r].index})
            /\ \A q, r \in DOMAIN counts :
                   q # r => counts[q].index # counts[r].index
            /\ Sum([r \in DOMAIN counts |-> counts[r].count]) = n
            /\ 0 < ins.bottleneck_pct.num
            /\ ins.bottleneck_pct.num <= 100 * ins.bottleneck_pct.den

\* A Dataset of three rows, two bottleneck categories with counts 2 and 1.
C18_Witness ==
    /\ insights # None
    /\ The(insights).n = 3
    /\ Len(The(insights).bottleneck_counts) = 2
    /\ The(insights).bottleneck_counts[1].count = 2
    /\ The(insights).bottleneck_counts[2].count = 1

\* C19: per-trial progress updates are issued only before the trials whose
\* 0-based index is a multiple of 50: after i trials of a run there have been
\* ceil(i / 50) of them, the last one for the largest multiple of 50 below i,
\* so ceil(n_sims / 50) in a whole run and not one per trial; and the rows
\* collected are those the trials produce, whatever was reported.
C19_ProgressEveryFiftiethTrial ==
    LET Ceil(a, b) == (a + b - 1) \div b
        done == IF pc = "loop" THEN i
                ELSE IF run_sim > 0 /\ data_run # None /\ The(data_run).click = run_sim
                     THEN The(data_run).n_sims
                     ELSE 0
        row == ResultRow(create_goal_optimization_model(base))
    IN  /\ progress.updates = Ceil(done, 50)
        /\ done > 0 => progress.value = Some(50 * (Ceil(done, 50) - 1))
        /\ done > 1 => progress.updates < done
        /\ pc = "loop" => results = [k \in 1..i |-> row]
        /\ (pc = "idle" /\ done > 0) =>
               The(simulation_data) = [k \in 1..done |-> row]

\* A completed run of 100 trials: two per-trial updates, the last one at 50.
C19_Witness ==
    /\ pc = "idle"
    /\ simulation_data # None
    /\ Len(The(simulation_data)) = 100
    /\ progress.updates = 2
    /\ progress.value = Some(50)

\* C20: the scenario the insights name as best is the first of the three with
\* the maximal throughput; its card carries the BEST badge; the improvement
\* line is shown exactly when scenario 1 is not maximal, and then the
\* improvement is greater than 0.
C20_InsightsNameFirstMaximalScenario ==
    scenario_inputs # None =>
        LET res == solve_scenarios
            ins == comparator_insights
            cards == <<scenario1_card, scenario2_card, scenario3_card>>
            best == Max3(res[1].total_throughput, res[2].total_throughput,
                         res[3].total_throughput)
            first == CHOOSE k \in 1..3 :
                        /\ res[k].total_throughput = best
                        /\ \A j \in 1..(k - 1) : res[j].total_throughput < best
        IN  /\ ins.best_idx + 1 = first
            /\ ins.best_name = res[first].name
            /\ ins.best_throughput = best
            /\ cards[first].badge = "BEST"
            /\ cards[first].name = ins.best_name
            /\ ins.improvement_line # None <=> res[1].total_throughput # best
            /\ ins.improvement_line # None =>
                   /\ The(ins.improvement_line).improvement > 0
                   /\ The(ins.improvement_line).best_name = ins.best_name

\* Scenarios 2 and 3 share a maximal throughput above scenario 1's, after the
\* sliders were moved: scenario 2 is named and the improvement line is shown.
C20_Witness ==
    /\ scenario_inputs # None
    /\ The(scenario_inputs) # DefaultScenarios
    /\ solve_scenarios[2].total_throughput = solve_scenarios[3].total_throughput
    /\ solve_scenarios[1].total_throughput < solve_scenarios[2].total_throughput
    /\ comparator_insights.best_idx = 1
    /\ scenario2_card.badge = "BEST"
    /\ scenario3_card.badge = "BEST"
    /\ comparator_insights.improvement_line # None

====
